---------------------------- MODULE Spec2Model ----------------------------
(***************************************************************************)
(* A model of expander.py: a macro preprocessor that loads files, strips   *)
(* macro definitions (registering them with a guest-language adapter),     *)
(* then replaces every macro invocation by the output of a guest script.   *)
(*                                                                         *)
(* Text is modelled character by character: a text is a sequence of        *)
(* one-character strings, and the two regular expressions of the program   *)
(* are evaluated on it with Python's leftmost, backtracking semantics.     *)
(***************************************************************************)
EXTENDS Integers, Sequences, FiniteSets, TLC

(***************************************************************************)
(* Bounds of the model.                                                    *)
(***************************************************************************)
\* files of a directory run
MaxFiles == 2
\* macro items (definitions and invocations) spread over the files of a run
MaxItems == 3
\* characters of left margin in front of an invocation
MaxIndent == 2
\* argument fragments of an invocation
MaxArgs == 2
\* lines of a guest script's output
MaxLines == 2
\* characters of a file without macro syntax
MaxPlain == 4
\* definition blocks of a file that tests the definition grammar
MaxDefs == 2

(***************************************************************************)
(* Generic helpers on texts.                                               *)
(***************************************************************************)
At(t, i) == IF i \in 1..Len(t) THEN t[i] ELSE ""

From(t, i) == SubSeq(t, i, Len(t))

RECURSIVE Concat(_)
Concat(ss) == IF ss = <<>> THEN <<>> ELSE Head(ss) \o Concat(Tail(ss))

\* sep.join(parts)
RECURSIVE Join(_, _)
Join(parts, sep) ==
  IF parts = <<>> THEN <<>>
  ELSE IF Len(parts) = 1 THEN parts[1]
  ELSE parts[1] \o sep \o Join(Tail(parts), sep)

\* does sub occur in t at index i
OccursAt(t, sub, i) ==
  /\ i >= 1
  /\ i + Len(sub) - 1 <= Len(t)
  /\ \A k \in 1..Len(sub) : t[i + k - 1] = sub[k]

Contains(t, sub) == \E i \in 1..(Len(t) + 1) : OccursAt(t, sub, i)

\* first index >= i where sub occurs in t, 0 when there is none
RECURSIVE Find(_, _, _)
Find(t, sub, i) ==
  IF i + Len(sub) - 1 > Len(t) THEN 0
  ELSE IF OccursAt(t, sub, i) THEN i
  ELSE Find(t, sub, i + 1)

\* s.split(sep): non-overlapping occurrences, left to right
RECURSIVE Split(_, _)
Split(t, sep) ==
  LET i == Find(t, sep, 1)
  IN IF i = 0 THEN <<t>>
     ELSE <<SubSeq(t, 1, i - 1)>> \o Split(From(t, i + Len(sep)), sep)

\* s.rstrip(c)
RECURSIVE RStrip(_, _)
RStrip(t, c) ==
  IF t # <<>> /\ t[Len(t)] = c THEN RStrip(SubSeq(t, 1, Len(t) - 1), c) ELSE t

(***************************************************************************)
(* The syntax constants and character classes.                             *)
(***************************************************************************)
special_char == <<"?", "?">>
end_char == ";"
start_def == <<"{", "{">>
end_def == <<"}", "}">>

\* \w of the regular expressions
WordChars ==
  {"a", "b", "c", "d", "e", "f", "g", "h", "i", "j", "k", "l", "m", "n", "o",
   "p", "q", "r", "s", "t", "u", "v", "w", "x", "y", "z",
   "D", "E", "F", "M", "0", "1", "_"}

\* \s of the regular expressions
SpaceChars == {" ", "\t", "\n", "\r", "\f"}

\* re.I : the literal letters of a pattern match either case
Lower(c) ==
  CASE c = "D" -> "d" [] c = "E" -> "e" [] c = "F" -> "f" [] c = "M" -> "m"
    [] OTHER -> c

RECURSIVE SkipWord(_, _)
SkipWord(t, i) == IF At(t, i) \in WordChars THEN SkipWord(t, i + 1) ELSE i

RECURSIVE SkipSpace(_, _)
SkipSpace(t, i) == IF At(t, i) \in SpaceChars THEN SkipSpace(t, i + 1) ELSE i

NoMatch == [ok |-> FALSE]

\* DefBodyEnd with a greedy body: up to the last end marker of the text
RECURSIVE FindLast(_, _, _)
FindLast(t, sub, i) ==
  LET j == Find(t, sub, i)
  IN IF j = 0 THEN 0
     ELSE IF Find(t, sub, j + 1) = 0 THEN j ELSE FindLast(t, sub, j + 1)

DefBodyEnd_greedy(t, c0) == FindLast(t, end_def, c0)

\* (.*?) and the end marker: the body ends at the nearest end marker
DefBodyEnd(t, c0) == Find(t, end_def, c0)

(***************************************************************************)
(* re_func_def, tried at index p.                                          *)
(***************************************************************************)
DefAt(t, p) ==
  LET n1 == p + 7
      n2 == SkipWord(t, n1)
      l1 == n2 + 1
      l2 == SkipWord(t, l1)
      a0 == SkipSpace(t, l2 + 1)
      a1 == Find(t, <<")">>, a0)
      b0 == SkipSpace(t, a1 + 1)
      c0 == b0 + 2
      c1 == DefBodyEnd(t, c0)
  IN IF /\ OccursAt(t, special_char, p)
        /\ Lower(At(t, p + 2)) = "d"
        /\ Lower(At(t, p + 3)) = "e"
        /\ Lower(At(t, p + 4)) = "f"
        /\ Lower(At(t, p + 5)) = "m"
        /\ At(t, p + 6) = ":"
        /\ n2 > n1
        /\ At(t, n2) = ":"
        /\ l2 > l1
        /\ At(t, l2) = "("
        /\ a1 # 0
        /\ OccursAt(t, start_def, b0)
        /\ c1 # 0
     THEN [ok |-> TRUE, start |-> p, end |-> c1 + 1,
           groups |-> <<SubSeq(t, n1, n2 - 1), SubSeq(t, l1, l2 - 1),
                        SubSeq(t, a0, a1 - 1), SubSeq(t, c0, c1 - 1)>>]
     ELSE NoMatch

\* re_func_def.search from index p on
RECURSIVE re_func_def(_, _)
re_func_def(t, p) ==
  IF p > Len(t) THEN NoMatch
  ELSE LET m == DefAt(t, p) IN IF m.ok THEN m ELSE re_func_def(t, p + 1)

(***************************************************************************)
(* re_func_call.  CallTail is ((?:.*?\?\?)*?); tried at index s: the lazy  *)
(* loop first tries to leave (the end character at s), then one more       *)
(* iteration ending at each later marker in turn.  It yields the index of  *)
(* the end character, or 0.                                                *)
(***************************************************************************)
RECURSIVE CallTail(_, _), CallIter(_, _)
CallTail(t, s) ==
  IF s > Len(t) THEN 0
  ELSE IF t[s] = end_char THEN s
  ELSE CallIter(t, s)

CallIter(t, r) ==
  IF r + 1 > Len(t) THEN 0
  ELSE IF OccursAt(t, special_char, r)
       THEN LET e == CallTail(t, r + 2)
            IN IF e # 0 THEN e ELSE CallIter(t, r + 1)
       ELSE CallIter(t, r + 1)

\* the lazy name (.*?) followed by a marker at q, q tried in increasing order
RECURSIVE CallName(_, _, _)
CallName(t, p, q) ==
  IF q + 1 > Len(t) THEN NoMatch
  ELSE IF OccursAt(t, special_char, q) /\ CallTail(t, q + 2) # 0
       THEN LET e == CallTail(t, q + 2)
            IN [ok |-> TRUE, start |-> p, end |-> e,
                groups |-> <<SubSeq(t, p + 2, q - 1), SubSeq(t, q + 2, e - 1)>>]
       ELSE CallName(t, p, q + 1)

CallAt(t, p) ==
  IF OccursAt(t, special_char, p) THEN CallName(t, p, p + 2) ELSE NoMatch

\* re_func_call.search from index p on
RECURSIVE re_func_call(_, _)
re_func_call(t, p) ==
  IF p > Len(t) THEN NoMatch
  ELSE LET m == CallAt(t, p) IN IF m.ok THEN m ELSE re_func_call(t, p + 1)

(***************************************************************************)
(* indent, str_reverse and the loading of a file.                          *)
(***************************************************************************)
\* the default indent_str of indent
DefaultIndent == <<" ", " ", " ", " ">>

indent(code, indent_str, ignore_first_line) ==
  LET lines == Split(code, <<"\n">>)
      out == [i \in 1..Len(lines) |->
                IF i = 1 /\ ignore_first_line THEN lines[i]
                ELSE indent_str \o lines[i]]
  IN Join(out, <<"\n">>)

str_reverse(s) == [i \in 1..Len(s) |-> s[Len(s) + 1 - i]]

\* the lines a file object yields: each ends with its "\n", but for the last
RECURSIVE FileLines(_)
FileLines(raw) ==
  LET i == Find(raw, <<"\n">>, 1)
  IN IF raw = <<>> THEN <<>>
     ELSE IF i = 0 THEN <<raw>>
     ELSE <<SubSeq(raw, 1, i)>> \o FileLines(From(raw, i + 1))

\* LoadText that strips the newline only
LoadText_keep_cr(raw) ==
  LET lines == FileLines(raw)
  IN Join([i \in 1..Len(lines) |-> RStrip(lines[i], "\n")], <<"\n">>)

\* '\n'.join([x.rstrip('\n').rstrip('\r') for x in f])
LoadText(raw) ==
  LET lines == FileLines(raw)
  IN Join([i \in 1..Len(lines) |-> RStrip(RStrip(lines[i], "\n"), "\r")],
          <<"\n">>)

\* str.strip
RECURSIVE LStripSpace(_)
LStripSpace(t) ==
  IF t # <<>> /\ t[1] \in SpaceChars THEN LStripSpace(Tail(t)) ELSE t

RECURSIVE RStripSpace(_)
RStripSpace(t) ==
  IF t # <<>> /\ t[Len(t)] \in SpaceChars
  THEN RStripSpace(SubSeq(t, 1, Len(t) - 1)) ELSE t

Strip(t) == LStripSpace(RStripSpace(t))

\* the left margin of a match: the spaces and tabs right before index start
RECURSIVE ScanLeft(_, _)
ScanLeft(current_code, i) ==
  IF i >= 1 /\ (current_code[i] = " " \/ current_code[i] = "\t")
  THEN <<current_code[i]>> \o ScanLeft(current_code, i - 1)
  ELSE <<>>

\* left_indent without the reversal
left_indent_unreversed(current_code, start) == ScanLeft(current_code, start - 1)

left_indent(current_code, start) == str_reverse(ScanLeft(current_code, start - 1))

\* CallArgs that keeps the element after the last marker
CallArgs_keep_last(m) == Split(m.groups[2], special_char)

\* the argument fragments of a call: args.split(special_char)[:-1]
CallArgs(m) ==
  LET parts == Split(m.groups[2], special_char)
  IN SubSeq(parts, 1, Len(parts) - 1)

(***************************************************************************)
(* The Python adapter.                                                     *)
(***************************************************************************)
python == <<"p", "y", "t", "h", "o", "n">>

\* the keys of langs
langs == {python}

\* map(str.strip, args.split(','))
DefArgs(m) ==
  LET parts == Split(m.groups[3], <<",">>)
  IN [i \in 1..Len(parts) |-> Strip(parts[i])]

\* what add_function appends to the accumulated source
FunctionSource(name, args, code) ==
  <<"\n", "d", "e", "f", " ">> \o name \o <<"(">> \o Join(args, <<",", " ">>)
    \o <<")", ":", "\n">> \o indent(code, DefaultIndent, FALSE)

\* the script run_function writes to its temporary file
Script(source, func, args) ==
  source \o <<"\n">> \o func \o <<"(">> \o Join(args, <<",">>) \o <<")", "\n">>

(***************************************************************************)
(* The state of a run.                                                     *)
(***************************************************************************)
VARIABLES
  given,              \* how the input of the run was put together (never read by the program)
  mode,               \* "file" or "dir": what the path argument of main is
  disk,               \* the source files on disk: name -> text
  guest,              \* what the guest interpreter prints for a script of this run
  pending,            \* the files expand_dir/expand_file has still to load
  loaded,             \* the files expand_file was called for, in that order
  files,              \* files: name -> current text
  function_calls,     \* function_calls: macro name -> key of its adapter in langs
  functions,          \* the adapters' accumulated source: key of langs -> text
  functions_declared, \* Lang.functions_declared
  pc,                 \* where main is: load, expand, run, write, done, error
  err,                \* the exception that ended the run, <<>> when none
  todo,               \* the items of files.items() expand_functions has still to visit
  cur_f,              \* the file expand_functions is at, NoFile between two files
  current_code,       \* current_code of expand_functions
  pos,                \* where re_func_call.sub goes on searching current_code
  acc,                \* what re_func_call.sub has put out so far
  call,               \* the invocation inside run_function: match, margin, code, t_name
  tempfiles,          \* the temporary files that exist: t_name -> content
  ntemp,              \* how many temporary files mkstemp has made
  ran,                \* the run_function calls so far: <<[func, args]>>
  outfiles,           \* the files write_out_files has written: name -> text
  stdout              \* the texts written to standard output

vars ==
  <<given, mode, disk, guest, pending, loaded, files, function_calls,
    functions, functions_declared, pc, err, todo, cur_f, current_code, pos,
    acc, call, tempfiles, ntemp, ran, outfiles, stdout>>

NoFile == <<>>
NoCall == [m |-> NoMatch, left_indent |-> <<>>, code |-> <<>>, t_name |-> 0]
Empty == [x \in {} |-> <<>>]
Without(f, k) == [x \in DOMAIN f \ {k} |-> f[x]]

\* out_name = name.replace('.exp.', '.'), a name being its dot-separated parts
OutName(name) ==
  IF Len(name) = 3 /\ name[2] = "exp" THEN <<name[1], name[3]>> ELSE name

(***************************************************************************)
(* define_functions: re_func_def.sub(define_func, code).  st carries the   *)
(* registry and the adapters through the matches of one file, st.out the   *)
(* text put out so far.                                                    *)
(***************************************************************************)
\* add_function that forgets functions_declared.add(name)
add_function_undeclared(st, lang, name, args, code) ==
  [st EXCEPT !.functions[lang] = @ \o FunctionSource(name, args, code)]

\* Python.add_function
add_function(st, lang, name, args, code) ==
  [st EXCEPT !.functions[lang] = @ \o FunctionSource(name, args, code),
             !.functions_declared = @ \cup {name}]

\* define_func without the check of function_calls
define_func_unchecked(m, st) ==
  IF m.groups[2] \in langs
  THEN [st EXCEPT
          !.functions[m.groups[2]] =
             @ \o FunctionSource(m.groups[1], DefArgs(m), m.groups[4]),
          !.functions_declared = @ \cup {m.groups[1]},
          !.function_calls =
             [n \in DOMAIN @ \cup {m.groups[1]} |-> m.groups[2]]]
  ELSE st

\* define_func that registers a name whatever its language
define_func_registers_unknown(m, st) ==
  IF m.groups[1] \in DOMAIN st.function_calls
  THEN [st EXCEPT !.err = <<"Trying to redeclare function", m.groups[1]>>]
  ELSE IF m.groups[2] \in langs
  THEN [st EXCEPT
          !.functions[m.groups[2]] =
             @ \o FunctionSource(m.groups[1], DefArgs(m), m.groups[4]),
          !.functions_declared = @ \cup {m.groups[1]},
          !.function_calls = @ @@ (m.groups[1] :> m.groups[2])]
  ELSE [st EXCEPT !.function_calls = @ @@ (m.groups[1] :> m.groups[2])]

define_func(m, st) ==
  LET name == m.groups[1]
      lang == m.groups[2]
      f_code == m.groups[4]
  IN IF name \in DOMAIN st.function_calls
     THEN [st EXCEPT !.err = <<"Trying to redeclare function", name>>]
     ELSE IF lang \in langs
          THEN [add_function(st, lang, name, DefArgs(m), f_code)
                  EXCEPT !.function_calls = @ @@ (name :> lang)]
          ELSE st

RECURSIVE DefineSub(_, _, _)
DefineSub(code, p, st) ==
  LET m == re_func_def(code, p)
  IN IF ~m.ok THEN [st EXCEPT !.out = @ \o From(code, p)]
     ELSE LET r == define_func(m, st)
          IN IF r.err # <<>> THEN r
             ELSE DefineSub(code, m.end + 1,
                            [r EXCEPT !.out = @ \o SubSeq(code, p, m.start - 1)])

define_functions(code) ==
  DefineSub(code, 1,
            [function_calls |-> function_calls, functions |-> functions,
             functions_declared |-> functions_declared,
             err |-> <<>>, out |-> <<>>])

\* AllLoaded that lets expand_functions run after each file
AllLoaded_each_file(rest) == TRUE

\* main calls expand_functions when expand_file or expand_dir has returned:
\* when no file is left to load
AllLoaded(rest) == rest = {}

(***************************************************************************)
(* expand_file(f): load the file, then define_functions.  main goes on to  *)
(* expand_functions once the last file is loaded.                          *)
(***************************************************************************)
ExpandFile(f) ==
  /\ pc = "load"
  /\ f \in pending
  /\ LET code == LoadText(disk[f])
         r == define_functions(code)
     IN /\ function_calls' = r.function_calls
        /\ functions' = r.functions
        /\ functions_declared' = r.functions_declared
        /\ err' = r.err
        /\ pending' = pending \ {f}
        /\ loaded' = Append(loaded, f)
        /\ IF r.err # <<>>
           THEN /\ files' = files @@ (f :> code)
                /\ pc' = "error"
                /\ todo' = {}
           ELSE /\ files' = files @@ (f :> r.out)
                /\ pc' = IF AllLoaded(pending \ {f}) THEN "expand" ELSE "load"
                /\ todo' = IF AllLoaded(pending \ {f}) THEN DOMAIN files \cup {f}
                           ELSE {}
  /\ UNCHANGED <<given, mode, disk, guest, cur_f, current_code, pos, acc, call,
                 tempfiles, ntemp, ran, outfiles, stdout>>

(***************************************************************************)
(* expand_functions: the loop over files.items().                          *)
(***************************************************************************)
NextItem(f) ==
  /\ pc = "expand"
  /\ cur_f = NoFile
  /\ f \in todo
  /\ todo' = todo \ {f}
  /\ cur_f' = f
  /\ current_code' = files[f]
  /\ pos' = 1
  /\ acc' = <<>>
  /\ UNCHANGED <<given, mode, disk, guest, pending, loaded, files, function_calls,
                 functions, functions_declared, pc, err, call, tempfiles,
                 ntemp, ran, outfiles, stdout>>

\* may run_function run func: the declared-set check
IsDeclared(func) == func \in functions_declared

(***************************************************************************)
(* re_func_call.sub(expand, current_code), up to the next call of expand:  *)
(* without a further match the substitution ends and files[f] is set; with *)
(* one, expand resolves the name and run_function composes the script and  *)
(* makes its temporary file.                                               *)
(***************************************************************************)
Expand ==
  /\ pc = "expand"
  /\ cur_f # NoFile
  /\ LET m == re_func_call(current_code, pos)
         name == m.groups[1]
         args == CallArgs(m)
     IN IF ~m.ok
        THEN /\ files' = [files EXCEPT ![cur_f] = acc \o From(current_code, pos)]
             /\ cur_f' = NoFile
             /\ pc' = IF todo = {} THEN "write" ELSE "expand"
             /\ UNCHANGED <<err, call, tempfiles, ntemp, ran>>
        ELSE IF name \notin DOMAIN function_calls
        THEN /\ pc' = "error"
             /\ err' = <<"Undeclared function", name>>
             /\ UNCHANGED <<files, cur_f, call, tempfiles, ntemp, ran>>
        ELSE IF ~IsDeclared(name)
        THEN /\ pc' = "error"
             /\ err' = <<"Unknown function", name>>
             /\ ran' = Append(ran, [func |-> name, args |-> args])
             /\ UNCHANGED <<files, cur_f, call, tempfiles, ntemp>>
        ELSE /\ ran' = Append(ran, [func |-> name, args |-> args])
             /\ ntemp' = ntemp + 1
             /\ tempfiles' = tempfiles @@ (ntemp + 1 :> <<>>)
             /\ call' = [m |-> m,
                         left_indent |-> left_indent(current_code, m.start),
                         code |-> Script(functions[function_calls[name]],
                                         name, args),
                         t_name |-> ntemp + 1]
             /\ pc' = "run"
             /\ UNCHANGED <<files, cur_f, err>>
  /\ UNCHANGED <<given, mode, disk, guest, pending, loaded, function_calls,
                 functions, functions_declared, todo, current_code, pos, acc,
                 outfiles, stdout>>

\* what run_function does with the temporary file once check_output returned
Unlink(tf, t_name) == Without(tf, t_name)

\* what can happen to the script: the interpreter exits with status 0 or
\* with another status, or the script cannot be written
Outcomes == {"exit 0", "exit 1", "write fails"}

(***************************************************************************)
(* run_function writes the script and runs the interpreter on it; with     *)
(* status 0 it deletes the file and returns, and expand gives the          *)
(* replacement back to re_func_call.sub.                                   *)
(***************************************************************************)
RunReturn(outcome) ==
  /\ pc = "run"
  /\ IF outcome = "write fails"
     THEN /\ pc' = "error"
          /\ err' = <<"IOError">>
          /\ UNCHANGED <<tempfiles, acc, pos>>
     ELSE IF outcome # "exit 0"
     THEN /\ pc' = "error"
          /\ err' = <<"CalledProcessError">>
          /\ tempfiles' = [tempfiles EXCEPT ![call.t_name] = call.code]
          /\ UNCHANGED <<acc, pos>>
     ELSE /\ tempfiles' = Unlink(tempfiles, call.t_name)
          /\ acc' = acc \o SubSeq(current_code, pos, call.m.start - 1)
                        \o indent(RStrip(guest, "\n"), call.left_indent, TRUE)
          /\ pos' = call.m.end + 1
          /\ pc' = "expand"
          /\ err' = <<>>
  /\ call' = NoCall
  /\ UNCHANGED <<given, mode, disk, guest, pending, loaded, files, function_calls,
                 functions, functions_declared, todo, cur_f, current_code,
                 ntemp, ran, outfiles, stdout>>

(***************************************************************************)
(* The output: sys.stdout.write(files[path]) or write_out_files.           *)
(***************************************************************************)
\* MayWrite that lets a file be written as soon as it is expanded
MayWrite_when_expanded(f) ==
  pc = "write" \/ (pc = "expand" /\ f \notin todo /\ f # cur_f)

\* main writes the output when expand_functions has returned
MayWrite(f) == pc = "write"

WriteStdout ==
  /\ pc = "write"
  /\ mode = "file"
  /\ stdout' = Append(stdout, files[CHOOSE f \in DOMAIN files : TRUE])
  /\ pc' = "done"
  /\ UNCHANGED <<given, mode, disk, guest, pending, loaded, files, function_calls,
                 functions, functions_declared, err, todo, cur_f, current_code,
                 pos, acc, call, tempfiles, ntemp, ran, outfiles>>

WriteOutFile(f) ==
  /\ MayWrite(f)
  /\ mode = "dir"
  /\ f \in DOMAIN files
  /\ OutName(f) \notin DOMAIN outfiles
  /\ outfiles' = outfiles @@ (OutName(f) :> files[f])
  /\ pc' = IF \A g \in DOMAIN files \ {f} : OutName(g) \in DOMAIN outfiles
           THEN "done" ELSE "write"
  /\ UNCHANGED <<given, mode, disk, guest, pending, loaded, files, function_calls,
                 functions, functions_declared, err, todo, cur_f, current_code,
                 pos, acc, call, tempfiles, ntemp, ran, stdout>>

Next ==
  \/ \E f \in pending : ExpandFile(f)
  \/ \E f \in todo : NextItem(f)
  \/ Expand
  \/ \E outcome \in Outcomes : RunReturn(outcome)
  \/ WriteStdout
  \/ \E f \in DOMAIN files : WriteOutFile(f)

(***************************************************************************)
(* The inputs.  A text is put together from definition blocks, invocations *)
(* and plain pieces; given records the pieces, so that a property can be   *)
(* stated about the input as it was written.                               *)
(***************************************************************************)
SeqsUpTo(S, n) == UNION {[1..k -> S] : k \in 0..n}

F == <<"f">>
G == <<"g">>
ruby == <<"r", "u", "b", "y">>
defm == <<"d", "e", "f", "m">>

\* ??defm:<name>:<language>(<params>){{<body>}}
DefText(d) ==
  special_char \o d.kw \o <<":">> \o d.name \o <<":">> \o d.lang \o <<"(">>
    \o d.params \o <<")">> \o d.gap \o start_def \o d.body \o end_def

\* ??<name>??<arg1>??...??<argn>??;
CallText(name, frags) ==
  special_char \o name \o special_char
    \o Concat([i \in 1..Len(frags) |-> frags[i] \o special_char])
    \o <<end_char>>

Block(kw, name, lang, params, gap, body) ==
  [type |-> "def", kw |-> kw, name |-> name, lang |-> lang, params |-> params,
   gap |-> gap, body |-> body]

Invocation(name) ==
  [type |-> "call", kw |-> <<>>, name |-> name, lang |-> <<>>, params |-> <<>>,
   gap |-> <<>>, body |-> <<>>]

ItemText(it) ==
  IF it.type = "def" THEN DefText(it) ELSE CallText(it.name, <<>>)

\* the items of a run over several files, each on a line of its own
RunItems ==
  {Block(defm, F, python, <<>>, <<>>, <<"x">>),
   Block(defm, F, ruby, <<>>, <<>>, <<"x">>),
   Block(defm, G, python, <<>>, <<>>, <<"x">>),
   Invocation(F),
   Invocation(G)}

\* the definition blocks of the files that test the definition grammar
DefBlocks ==
  {Block(defm, F, python, <<>>, <<>>, <<"x">>),
   Block(defm, G, python, <<" ", "a", ",", " ", "b", " ">>, <<"\n">>,
         <<"\n", "}", "y", "\n">>),
   Block(defm, F, ruby, <<>>, <<" ">>, <<>>),
   Block(<<"D", "E", "F", "M">>, G, python, <<"a">>, <<>>, <<"{", "\r", "\n">>)}

\* plain text around definition blocks
PlainPieces == {<<>>, <<"x", "\n">>, <<"}", " ">>}

\* plain text in front of the margin of an invocation (no space or tab last)
Pres == {<<>>, <<"x">>, <<"x", "\n">>}

Margins == SeqsUpTo({" ", "\t"}, MaxIndent)

\* argument fragments
Frags == {<<"a">>, <<>>, <<" ", "'", "b", ";", "'", " ">>}

\* the characters of a file without macro syntax
PlainChars == {"x", "\r", "\n", "?", ";"}

\* what a guest script prints: up to MaxLines lines, the last with or
\* without its newline
GuestOutputs ==
  {Join(ls, <<"\n">>) \o nl :
     ls \in SeqsUpTo({<<"r">>}, MaxLines), nl \in {<<>>, <<"\n">>}}

FileName(i) ==
  <<CASE i = 1 -> "a" [] i = 2 -> "b" [] i = 3 -> "c" [] OTHER -> "d",
    "exp", "txt">>

NoGiven ==
  [kind |-> "", items |-> <<>>, plains |-> <<>>, margin |-> <<>>,
   frags |-> <<>>, defpos |-> ""]

Start(md, dsk, gst, gv) ==
  /\ given = gv
  /\ mode = md
  /\ disk = dsk
  /\ guest = gst
  /\ pending = DOMAIN dsk
  /\ loaded = <<>>
  /\ files = Empty
  /\ function_calls = Empty
  /\ functions = [l \in langs |-> <<>>]
  /\ functions_declared = {}
  /\ pc = "load"
  /\ err = <<>>
  /\ todo = {}
  /\ cur_f = NoFile
  /\ current_code = <<>>
  /\ pos = 1
  /\ acc = <<>>
  /\ call = NoCall
  /\ tempfiles = Empty
  /\ ntemp = 0
  /\ ran = <<>>
  /\ outfiles = Empty
  /\ stdout = <<>>

\* one file in single-file mode, or the files of a directory
OneFile(md, text, gst, gv) == Start(md, (FileName(1) :> text), gst, gv)

\* file i of a run holds items cut[i-1]+1 .. cut[i] of the sequence; each
\* file of several holds an item
RunText(its, from, to) ==
  Concat([i \in 1..(to - from) |-> ItemText(its[from + i]) \o <<"\n">>])

InitRun ==
  \E n \in 1..MaxFiles, md \in {"file", "dir"}, its \in SeqsUpTo(RunItems, MaxItems) :
    \E cut \in [0..n -> 0..Len(its)] :
      /\ md = "file" => n = 1
      /\ cut[0] = 0
      /\ cut[n] = Len(its)
      /\ \A i \in 1..n : cut[i - 1] < cut[i] \/ n = 1
      /\ Start(md,
               [f \in {FileName(i) : i \in 1..n} |->
                  LET i == CHOOSE j \in 1..n : FileName(j) = f
                  IN RunText(its, cut[i - 1], cut[i])],
               <<"r", "\n">>,
               [NoGiven EXCEPT !.kind = "run",
                               !.items = [i \in 1..n |->
                                            SubSeq(its, cut[i - 1] + 1, cut[i])]])

\* one invocation of f with a margin, f defined after, between or before
IndentText(pre, margin, post, defpos) ==
  LET d == DefText(Block(defm, F, python, <<>>, <<>>, <<"x">>))
      c == CallText(F, <<>>)
  IN CASE defpos = "end" -> pre \o margin \o c \o post \o <<"\n">> \o d
       [] defpos = "mid" -> pre \o margin \o d \o c \o post
       [] OTHER -> d \o pre \o margin \o c \o post

InitIndent ==
  \E pre \in Pres, margin \in Margins, post \in {<<>>, <<"\n", "z">>},
     defpos \in {"end", "mid", "start"}, gst \in GuestOutputs :
    OneFile("file", IndentText(pre, margin, post, defpos), gst,
            [NoGiven EXCEPT !.kind = "indent", !.plains = <<pre, post>>,
                            !.margin = margin, !.defpos = defpos])

\* one invocation of g with argument fragments
InitArgs ==
  \E frags \in SeqsUpTo(Frags, MaxArgs), margin \in {<<>>, <<" ">>},
     md \in {"file", "dir"} :
    OneFile(md,
            DefText(Block(defm, G, python, <<"a">>, <<>>, <<"x">>)) \o <<"\n">>
              \o margin \o CallText(G, frags) \o <<"\n">>,
            <<"r", "\n">>,
            [NoGiven EXCEPT !.kind = "args", !.frags = frags,
                            !.margin = margin])

\* a file of plain characters
InitPlain ==
  \E raw \in SeqsUpTo(PlainChars, MaxPlain), md \in {"file", "dir"} :
    OneFile(md, raw, <<"r", "\n">>, [NoGiven EXCEPT !.kind = "plain"])

\* definition blocks between plain pieces: p0 D1 p1 ... Dk pk
RECURSIVE Interleave(_, _)
Interleave(plains, blocks) ==
  IF blocks = <<>> THEN plains[1]
  ELSE plains[1] \o DefText(blocks[1]) \o Interleave(Tail(plains), Tail(blocks))

InitDefs ==
  \E blocks \in SeqsUpTo(DefBlocks, MaxDefs) :
    \E plains \in [1..(Len(blocks) + 1) -> PlainPieces] :
      OneFile("file", Interleave(plains, blocks), <<"r", "\n">>,
              [NoGiven EXCEPT !.kind = "defs", !.items = blocks,
                              !.plains = plains])

Init == InitRun \/ InitIndent \/ InitArgs \/ InitPlain \/ InitDefs

Spec == Init /\ [][Next]_vars

(***************************************************************************)
(* Notions the properties are stated with.                                 *)
(***************************************************************************)
Registry == <<function_calls, functions, functions_declared>>

Redeclared == err # <<>> /\ err[1] = "Trying to redeclare function"

\* the definition phase of every file is over, and none failed
DefinitionDone == pending = {} /\ ~Redeclared

\* right after the definition phase of a single file
JustDefined ==
  /\ pc = "expand"
  /\ loaded = <<FileName(1)>>
  /\ todo = {FileName(1)}

NoOutput == stdout = <<>> /\ outfiles = Empty

\* the output of a run over one file
Output ==
  IF mode = "file" THEN stdout[1] ELSE outfiles[OutName(FileName(1))]

EndsWith(t, suffix) ==
  Len(suffix) <= Len(t) /\ SubSeq(t, Len(t) - Len(suffix) + 1, Len(t)) = suffix

DropLast(t) == SubSeq(t, 1, Len(t) - 1)

Last(t) == t[Len(t)]

(***************************************************************************)
(* C5.  Every temporary file run_function makes is deleted by the time     *)
(* run_function returns or raises: outside run_function no temporary file  *)
(* of the run exists.                                                      *)
(***************************************************************************)
C5_TempFilesDeleted == pc # "run" => tempfiles = Empty

(***************************************************************************)
(* C6.  An invocation with a margin of N spaces and tabs right before it,  *)
(* whose guest function returns k lines, is replaced by line 1 as it is    *)
(* and lines 2..k each behind the margin; the margin is that of the text   *)
(* without its definitions.                                                *)
(***************************************************************************)
ResultLines == Split(RStrip(guest, "\n"), <<"\n">>)

ExpectedReplacement ==
  Concat([i \in 1..Len(ResultLines) |->
            IF i = 1 THEN ResultLines[1]
            ELSE <<"\n">> \o given.margin \o ResultLines[i]])

C6_Indentation ==
  (given.kind = "indent" /\ pc = "done") =>
    Output = given.plains[1] \o given.margin \o ExpectedReplacement
               \o given.plains[2]
               \o (IF given.defpos = "end" THEN <<"\n">> ELSE <<>>)

C6_Witness ==
  /\ given.kind = "indent"
  /\ pc = "done"
  /\ given.margin = <<" ", "\t">>
  /\ given.defpos = "mid"
  /\ given.plains[1] = <<"x", "\n">>
  /\ Len(ResultLines) = 2
  /\ Output = <<"x", "\n", " ", "\t", "r", "\n", " ", "\t", "r">>
                \o given.plains[2]

(***************************************************************************)
(* C7.  run_function receives the argument fragments of the invocation as  *)
(* they are written, in their order, without the empty element the last    *)
(* marker leaves, and the script ends with the call name(a1,...,an).       *)
(***************************************************************************)
C7_Arguments ==
  (given.kind = "args" /\ ran # <<>>) =>
    /\ ran[1] = [func |-> G, args |-> given.frags]
    /\ pc = "run" =>
         EndsWith(call.code,
                  <<"\n">> \o G \o <<"(">> \o Join(given.frags, <<",">>)
                    \o <<")", "\n">>)

C7_Witness ==
  /\ given.kind = "args"
  /\ pc = "run"
  /\ given.frags = <<<<" ", "'", "b", ";", "'", " ">>, <<"a">>>>
  /\ ran = <<[func |-> G, args |-> given.frags]>>

C7_WitnessNoArgs ==
  /\ given.kind = "args"
  /\ pc = "run"
  /\ given.frags = <<>>
  /\ EndsWith(call.code, <<"\n", "g", "(", ")", "\n">>)

(***************************************************************************)
(* C10.  Every name of function_calls is in functions_declared and the     *)
(* accumulated source of its adapter holds its definition; the adapter     *)
(* never raises "Unknown function".                                        *)
(***************************************************************************)
C10_RegistryConsistent ==
  /\ \A name \in DOMAIN function_calls :
       /\ function_calls[name] \in langs
       /\ name \in functions_declared
       /\ Contains(functions[function_calls[name]],
                   <<"\n", "d", "e", "f", " ">> \o name \o <<"(">>)
  /\ ~(err # <<>> /\ err[1] = "Unknown function")

C10_Witness ==
  /\ pc = "run"
  /\ DOMAIN function_calls = {F, G}
  /\ ran # <<>>
  /\ Last(ran).func = G

(***************************************************************************)
(* The definition and invocation items of the files of a run, as written.  *)
(***************************************************************************)
Itemised == given.kind \in {"run", "defs"}

ItemsOf(f) ==
  IF given.kind = "run"
  THEN given.items[CHOOSE i \in 1..Len(given.items) : FileName(i) = f]
  ELSE given.items

IsDef(it) == it.type = "def"

\* the definition blocks of the files loaded so far, in the order the
\* definition phase meets them
ProcessedDefs ==
  SelectSeq(Concat([k \in 1..Len(loaded) |-> ItemsOf(loaded[k])]), IsDef)

\* the blocks that follow a block of the same name with a language of langs
Clashes(P) ==
  {j \in 1..Len(P) :
     \E i \in 1..(j - 1) : P[i].name = P[j].name /\ P[i].lang \in langs}

FirstClash(P) ==
  IF Clashes(P) = {} THEN 0
  ELSE CHOOSE j \in Clashes(P) : \A k \in Clashes(P) : j <= k

RECURSIVE Count(_, _, _)
Count(t, sub, i) ==
  LET j == Find(t, sub, i)
  IN IF j = 0 THEN 0 ELSE 1 + Count(t, sub, j + 1)

DefHeader(name) == <<"\n", "d", "e", "f", " ">> \o name \o <<"(">>

(***************************************************************************)
(* C1.  The definition phase of all files is over before run_function is   *)
(* called for the first time, and the registry, the accumulated source and *)
(* the declared-set do not change while expand_functions runs; so an       *)
(* invocation is never undeclared when some file of the set defines its    *)
(* name, whichever file was loaded first.                                  *)
(***************************************************************************)
C1_AllLoadedFirst ==
  (ran # <<>> \/ pc \in {"expand", "run", "write", "done"}) =>
    /\ pending = {}
    /\ DOMAIN files = DOMAIN disk
    /\ Len(loaded) = Cardinality(DOMAIN disk)

C1_ResolvesAcrossFiles ==
  (given.kind = "run" /\ err # <<>> /\ err[1] = "Undeclared function") =>
    \A i \in 1..Len(given.items) : \A k \in 1..Len(given.items[i]) :
      ~(/\ IsDef(given.items[i][k])
        /\ given.items[i][k].lang \in langs
        /\ given.items[i][k].name = err[2])

C1_RegistryFrozen ==
  (pc \in {"expand", "run"} \/ ran' # ran) => Registry' = Registry

C1_DefinitionBeforeExpansion ==
  /\ [](C1_AllLoadedFirst /\ C1_ResolvesAcrossFiles)
  /\ [][C1_RegistryFrozen]_vars

\* the invocation is in the file loaded first, its definition in the second
C1_Witness ==
  /\ given.kind = "run"
  /\ mode = "dir"
  /\ Len(loaded) = 2
  /\ ItemsOf(loaded[1]) = <<Invocation(F)>>
  /\ ItemsOf(loaded[2]) = <<Block(defm, F, python, <<>>, <<>>, <<"x">>)>>
  /\ ran = <<[func |-> F, args |-> <<>>]>>
  /\ pc = "done"

(***************************************************************************)
(* C2, as claimed.  When two definition blocks of the same name have been  *)
(* met, whatever their language tags, the run has failed with the          *)
(* duplicate-definition error.                                             *)
(***************************************************************************)
C2_AnyTwoBlocksFail ==
  (Itemised /\ \E i, j \in 1..Len(ProcessedDefs) :
                 i < j /\ ProcessedDefs[i].name = ProcessedDefs[j].name)
    => Redeclared

(***************************************************************************)
(* C2, amended.  A definition block fails with the duplicate-definition    *)
(* error exactly when an earlier block of the same name carried a language *)
(* tag that is a key of langs, whatever its own tag and whichever files    *)
(* the two are in; the run aborts at that block, and no name is defined    *)
(* twice in the accumulated source.                                        *)
(***************************************************************************)
C2_Redeclare ==
  Itemised =>
    LET P == ProcessedDefs
        j == FirstClash(P)
    IN /\ Redeclared <=> j # 0
       /\ Redeclared =>
            /\ pc = "error"
            /\ err[2] = P[j].name
            /\ \E k \in 1..Len(ItemsOf(Last(loaded))) :
                 ItemsOf(Last(loaded))[k] = P[j]
            /\ DOMAIN function_calls =
                 {P[i].name : i \in {i \in 1..(j - 1) : P[i].lang \in langs}}
       /\ \A name \in DOMAIN function_calls :
            Count(functions[function_calls[name]], DefHeader(name), 1) = 1

\* the second block is in another file and has an unknown language
C2_Witness ==
  /\ given.kind = "run"
  /\ Redeclared
  /\ err[2] = F
  /\ Len(loaded) = 2
  /\ ItemsOf(loaded[1]) = <<Block(defm, F, python, <<>>, <<>>, <<"x">>)>>
  /\ ItemsOf(loaded[2]) = <<Block(defm, F, ruby, <<>>, <<>>, <<"x">>)>>

(***************************************************************************)
(* C3, as claimed.  Definition blocks with a language tag that is no key   *)
(* of langs raise no error: loading a file whose blocks all carry such a   *)
(* tag does not fail.                                                      *)
(***************************************************************************)
C3_UnknownNeverRaises ==
  (/\ Itemised
   /\ loaded # <<>>
   /\ \A k \in 1..Len(ItemsOf(Last(loaded))) :
        IsDef(ItemsOf(Last(loaded))[k]) =>
          ItemsOf(Last(loaded))[k].lang \notin langs)
    => ~Redeclared

(***************************************************************************)
(* C3, amended.  A definition block whose language tag is no key of langs  *)
(* and whose name is not a key of function_calls when it is met is removed *)
(* from the text, adds nothing to function_calls, to the accumulated       *)
(* source or to the declared-set, and raises no error; the other blocks of *)
(* the file are defined as usual.  Stated of one expand_file step of a     *)
(* file no block of which meets its name in function_calls.                *)
(***************************************************************************)
FreshNames(its) ==
  \A i \in 1..Len(its) :
    IsDef(its[i]) =>
      /\ its[i].name \notin DOMAIN function_calls
      /\ \A k \in 1..(i - 1) :
           (IsDef(its[k]) /\ its[k].lang \in langs) => its[k].name # its[i].name

KnownDefs(its) == SelectSeq(its, LAMBDA it : IsDef(it) /\ it.lang \in langs)

\* the text of a file of a run with its definition blocks taken out
Stripped(its) ==
  DropLast(Concat([i \in 1..Len(its) |->
                     (IF IsDef(its[i]) THEN <<>> ELSE ItemText(its[i]))
                       \o <<"\n">>]))

C3_Step ==
  (given.kind = "run" /\ loaded' # loaded /\ FreshNames(ItemsOf(Last(loaded')))) =>
    LET f == Last(loaded')
        its == ItemsOf(f)
        known == KnownDefs(its)
    IN /\ err' = <<>>
       /\ files'[f] = Stripped(its)
       /\ DOMAIN function_calls' =
            DOMAIN function_calls \cup {known[i].name : i \in 1..Len(known)}
       /\ functions_declared' =
            functions_declared \cup {known[i].name : i \in 1..Len(known)}
       /\ functions' =
            [functions EXCEPT ![python] =
               @ \o Concat([i \in 1..Len(known) |->
                              DefHeader(known[i].name)
                                \o <<")", ":", "\n", " ", " ", " ", " ", "x">>])]

C3_UnknownLanguage == [][C3_Step]_vars

\* an unknown-language block, and then a block of the file that is defined
C3_Witness ==
  /\ given.kind = "run"
  /\ loaded # <<>>
  /\ err = <<>>
  /\ ItemsOf(Last(loaded)) = <<Block(defm, F, ruby, <<>>, <<>>, <<"x">>),
                               Block(defm, G, python, <<>>, <<>>, <<"x">>)>>
  /\ DOMAIN function_calls = {G}
  /\ functions_declared = {G}
  /\ files[Last(loaded)] = <<"\n">>

(***************************************************************************)
(* C4.  An invocation of an undeclared name that expand_functions has      *)
(* still to reach.                                                         *)
(***************************************************************************)
RECURSIVE AnyUndeclared(_, _)
AnyUndeclared(text, p) ==
  LET m == re_func_call(text, p)
  IN IF ~m.ok THEN FALSE
     ELSE m.groups[1] \notin DOMAIN function_calls
            \/ AnyUndeclared(text, m.end + 1)

UndeclaredPending ==
  /\ DefinitionDone
  /\ \/ \E f \in todo : AnyUndeclared(files[f], 1)
     \/ cur_f # NoFile /\ AnyUndeclared(current_code, pos)

(***************************************************************************)
(* C4, as claimed.  When a loaded file holds an invocation of a name that  *)
(* is not in the registry, the run ends with the "Undeclared function"     *)
(* error, and without any output.                                          *)
(***************************************************************************)
C4_RaisesUndeclared ==
  (UndeclaredPending /\ pc \in {"done", "error"}) =>
    (err # <<>> /\ err[1] = "Undeclared function" /\ NoOutput)

(***************************************************************************)
(* C4, amended.  When a loaded file holds an invocation of a name that is  *)
(* not in the registry, the run aborts with an error before any output is  *)
(* produced: the "Undeclared function" error, unless running an earlier    *)
(* invocation failed first.  The invocation stays ahead until the run has  *)
(* raised, and as long as it is ahead nothing is written.                  *)
(***************************************************************************)
C4_NoOutputYet ==
  UndeclaredPending =>
    /\ NoOutput
    /\ pc \in {"expand", "run", "error"}
    /\ pc = "error" =>
         \/ err[1] = "Undeclared function" /\ err[2] \notin DOMAIN function_calls
         \/ err[1] \in {"CalledProcessError", "IOError"} /\ ran # <<>>

C4_StaysAhead == UndeclaredPending => UndeclaredPending'

C4_AbortsBeforeOutput == []C4_NoOutputYet /\ [][C4_StaysAhead]_vars

\* directory mode: one file is expanded, the other raised
C4_Witness ==
  /\ mode = "dir"
  /\ Len(loaded) = 2
  /\ pc = "error"
  /\ err # <<>> /\ err[1] = "Undeclared function"
  /\ todo = {}
  /\ ran # <<>>
  /\ \E f \in DOMAIN files : f # cur_f /\ files[f] = <<"r">>
  /\ NoOutput

(***************************************************************************)
(* C8, as claimed.  A file without macro syntax comes out with the CR/LF   *)
(* terminator of every line replaced by a single LF and nothing else       *)
(* changed.                                                                *)
(***************************************************************************)
NoMacroSyntax(text) == ~re_func_def(text, 1).ok /\ ~re_func_call(text, 1).ok

RECURSIVE CrLfToLf(_)
CrLfToLf(t) ==
  IF t = <<>> THEN <<>>
  ELSE IF Len(t) >= 2 /\ t[1] = "\r" /\ t[2] = "\n"
       THEN <<"\n">> \o CrLfToLf(SubSeq(t, 3, Len(t)))
       ELSE <<t[1]>> \o CrLfToLf(Tail(t))

PlainRun == given.kind = "plain" /\ NoMacroSyntax(disk[FileName(1)])

C8_TerminatorsReplaced ==
  (PlainRun /\ pc = "done") => Output = CrLfToLf(disk[FileName(1)])

(***************************************************************************)
(* C8, amended.  A file without macro syntax comes out as its lines in     *)
(* their order, each without its terminator (its LF with the CRs right     *)
(* before it, or the CRs that end the file), joined by single LFs: the     *)
(* newline that ends the file is not put out again.  Nothing is            *)
(* registered and nothing is run.                                          *)
(***************************************************************************)
RECURSIVE SkipCr(_, _)
SkipCr(t, i) == IF At(t, i) = "\r" THEN SkipCr(t, i + 1) ELSE i

RECURSIVE LinesJoined(_, _)
LinesJoined(t, i) ==
  LET j == SkipCr(t, i)
  IN IF i > Len(t) THEN <<>>
     ELSE IF j > i
          THEN IF j > Len(t) \/ t[j] = "\n" THEN LinesJoined(t, j)
               ELSE SubSeq(t, i, j - 1) \o LinesJoined(t, j)
     ELSE IF t[i] = "\n" /\ i = Len(t) THEN <<>>
     ELSE <<t[i]>> \o LinesJoined(t, i + 1)

C8_RoundTrip ==
  PlainRun =>
    /\ pc # "error"
    /\ function_calls = Empty
    /\ functions_declared = {}
    /\ ran = <<>>
    /\ pc = "done" => Output = LinesJoined(disk[FileName(1)], 1)

C8_Witness ==
  /\ PlainRun
  /\ pc = "done"
  /\ disk[FileName(1)] = <<"x", "\r", "\n", "\n">>
  /\ Output = <<"x", "\n">>

(***************************************************************************)
(* C9.  After the definition phase the text of a file holds nothing of its *)
(* definition blocks: it is the text around the blocks, unchanged.         *)
(***************************************************************************)
\* the plain pieces of the file as loaded: a newline that ends the file is
\* not loaded
PlainLoaded ==
  LET ps == given.plains
      last == Last(ps)
  IN Concat(DropLast(ps))
       \o (IF last # <<>> /\ Last(last) = "\n" THEN DropLast(last) ELSE last)

C9_DefinitionsRemoved ==
  (given.kind = "defs" /\ JustDefined) =>
    /\ files[FileName(1)] = PlainLoaded
    /\ ~Contains(files[FileName(1)], special_char)
    /\ ~Contains(files[FileName(1)], start_def)
    /\ ~Contains(files[FileName(1)], end_def)

C9_Witness ==
  /\ given.kind = "defs"
  /\ JustDefined
  /\ Len(given.items) = 2
  /\ given.items[1].name = G /\ given.items[1].kw = defm
  /\ given.items[2].lang = ruby
  /\ given.plains = <<<<"x", "\n">>, <<"}", " ">>, <<"x", "\n">>>>
  /\ files[FileName(1)] = <<"x", "\n", "}", " ", "x">>
  /\ DOMAIN function_calls = {G}

=============================================================================
